---- MODULE Spec2Model ----
(***************************************************************************)
(* fuzzel-secrets: the Field/Secret record model and the store / retrieve  *)
(* workflows (src/fuzzel-secrets/src).                                     *)
(*                                                                         *)
(* Strings are sequences of one-character strings, so that display,        *)
(* parse_from_display, trim, to_lowercase and sort are computed character  *)
(* by character as the Rust code computes them.                            *)
(***************************************************************************)
EXTENDS Integers, Sequences, FiniteSets, TLC

VARIABLES
    fld,          \* Field unit under SpecField: stage, the field, its display string, the parsed field
    mode,         \* subcommand of this run: "store" | "retrieve" (main.rs Commands)
    pc,           \* position of the workflow (the main task)
    tpc,          \* position of the spawned all_field_keys task ("none" before the spawn)
    conn,         \* per thread: 0 no handle, -1 about to create the collection, n handle on collection n
    collections,  \* the Secret Service: the collections labelled COLLECTION_LABEL, each a sequence of items
    all_secrets,  \* main.rs all_secrets: the sorted labels
    requested_secret, \* main.rs requested_secret: the chosen label
    data,         \* main.rs data: the working / fetched Secret (a map key -> value)
    task,         \* the background task: labels still to fetch, keys collected, result
    existing_keys,\* main.rs existing_keys: sorted suggestions after the join
    hist,         \* observations of the run: calls made to the collaborators, prompts shown, last edit
    other         \* a second store process on the same Secret Service (idle unless SpecRace)

vars == <<other, fld, mode, pc, tpc, conn, collections, all_secrets, requested_secret,
          data, task, existing_keys, hist>>

----------------------------------------------------------------------------
(* Bounds *)

\* longest key of the Field unit, in atoms
MaxKeyAtoms == 3
\* longest value of the Field unit, in atoms
MaxValueAtoms == 1
\* most items of the collection searched by the get_data unit
MaxItems == 2
\* longest display string handed to the parse unit, in atoms
MaxTextAtoms == 4
\* most edit-loop iterations that change the working Secret in one store run
MaxEdits == 2
\* most fields of a Secret that is serialised and deserialised
MaxFields == 3
\* most changes the second store process makes to its working Secret
MaxOtherEdits == 1

----------------------------------------------------------------------------
(* Characters and strings *)

\* the characters used, in code-point order (String's Ord compares bytes)
\* ("V" stands for the check mark U+2713 of complete_option, above every ASCII character)
Chars == <<" ", "*", "+", ":", "A", "C", "S", "T", "a", "b", "c", "d", "e", "f", "i",
           "k", "l", "m", "n", "o", "p", "r", "s", "t", "u", "w", "x", "y", "z", "V">>

Code(c) == CHOOSE i \in 1..Len(Chars) : Chars[i] = c

\* char::to_lowercase on the characters used
LowerChar(c) ==
    IF c = "A" THEN "a" ELSE IF c = "C" THEN "c"
    ELSE IF c = "S" THEN "s" ELSE IF c = "T" THEN "t" ELSE c

\* str::to_lowercase
ToLowercase(s) == [i \in 1..Len(s) |-> LowerChar(s[i])]

\* str::contains
Contains(s, sub) ==
    \E i \in 1..(Len(s) - Len(sub) + 1) : SubSeq(s, i, i + Len(sub) - 1) = sub

\* str::find: the 1-based position of the first occurrence, 0 when there is none
Find(s, sub) ==
    LET hits == {i \in 1..(Len(s) - Len(sub) + 1) : SubSeq(s, i, i + Len(sub) - 1) = sub}
    IN  IF hits = {} THEN 0 ELSE CHOOSE i \in hits : \A j \in hits : i <= j

\* str::trim: strips leading and trailing white space
Trim(s) ==
    LET ink == {i \in 1..Len(s) : s[i] # " "}
    IN  IF ink = {} THEN <<>>
        ELSE LET lo == CHOOSE i \in ink : \A j \in ink : i <= j
                 hi == CHOOSE i \in ink : \A j \in ink : j <= i
             IN  SubSeq(s, lo, hi)

\* String's Ord: lexicographic by code point, a proper prefix first
RECURSIVE StrLess(_, _)
StrLess(a, b) ==
    IF b = <<>> THEN FALSE
    ELSE IF a = <<>> THEN TRUE
    ELSE IF a[1] # b[1] THEN Code(a[1]) < Code(b[1])
    ELSE StrLess(Tail(a), Tail(b))

\* Vec<String>::sort (stable; equal strings are indistinguishable)
RECURSIVE InsertSorted(_, _)
InsertSorted(x, q) ==
    IF q = <<>> THEN <<x>>
    ELSE IF StrLess(x, q[1]) THEN <<x>> \o q
    ELSE <<q[1]>> \o InsertSorted(x, Tail(q))

RECURSIVE Sort(_)
Sort(q) == IF q = <<>> THEN <<>> ELSE InsertSorted(q[1], Sort(Tail(q)))

\* every ordering of a finite set: the iteration orders a HashMap / HashSet may have
RECURSIVE Orders(_)
Orders(S) ==
    IF S = {} THEN {<<>>}
    ELSE UNION {{<<x>> \o q : q \in Orders(S \ {x})} : x \in S}

Range(q) == {q[i] : i \in 1..Len(q)}

----------------------------------------------------------------------------
(* String literals *)

SEP      == <<":", " ">>
PASSWORD == <<"p", "a", "s", "s", "w", "o", "r", "d">>
SECRET   == <<"s", "e", "c", "r", "e", "t">>
TOKEN    == <<"t", "o", "k", "e", "n">>
MASK     == [i \in 1..8 |-> "*"]

add_field_option == <<"+", " ", " ", " ", "A", "d", "d", " ", "f", "i", "e", "l", "d">>
complete_option  == <<"V", " ", " ", " ", "C", "o", "m", "p", "l", "e", "t", "e">>

----------------------------------------------------------------------------
(* field.rs *)

Field(k, v) == [key |-> k, value |-> v]

\* (mutant) a sensitivity test that compares the key as written
is_key_sensitive_cased(key) ==
    \/ Contains(key, PASSWORD)
    \/ Contains(key, SECRET)
    \/ Contains(key, TOKEN)

is_key_sensitive(key) ==
    LET key_lower == ToLowercase(key)
    IN  \/ Contains(key_lower, PASSWORD)
        \/ Contains(key_lower, SECRET)
        \/ Contains(key_lower, TOKEN)

is_sensitive(f) == is_key_sensitive(f.key)

\* (mutant) a display value that is never masked
display_value_raw(f) == f.value

display_value(f) == IF is_sensitive(f) THEN MASK ELSE f.value

display(f) == f.key \o SEP \o display_value(f)

\* Result<Field>: ok = FALSE is the anyhow "Invalid display format" error
ParseErr == [ok |-> FALSE, key |-> <<>>, value |-> <<>>]

\* (mutant) a parse that splits at the last separator
parse_from_display_last(d) ==
    LET hits == {i \in 1..(Len(d) - 1) : SubSeq(d, i, i + 1) = SEP}
    IN  IF hits = {} THEN ParseErr
        ELSE LET pos == CHOOSE i \in hits : \A j \in hits : j <= i
             IN  [ok |-> TRUE,
                  key |-> SubSeq(d, 1, pos - 1),
                  value |-> SubSeq(d, pos + 2, Len(d))]

parse_from_display(d) ==
    LET pos == Find(d, SEP)
    IN  IF pos = 0 THEN ParseErr
        ELSE [ok |-> TRUE,
              key |-> SubSeq(d, 1, pos - 1),
              value |-> SubSeq(d, pos + 2, Len(d))]

----------------------------------------------------------------------------
(* secret.rs: a Secret is a map from key to value *)

EmptySecret == [k \in {} |-> <<>>]

\* (mutant) an insert that leaves the inserted key alone in the map
InsertAlone(d, k, v) == [x \in {k} |-> v]

\* (mutant) an insert that keeps the value of a key already present
InsertKeepsFirst(d, k, v) ==
    [x \in (DOMAIN d) \cup {k} |-> IF x \in DOMAIN d THEN d[x] ELSE v]

\* Secret::insert (HashMap::insert: insert or replace)
Insert(d, k, v) == [x \in (DOMAIN d) \cup {k} |-> IF x = k THEN v ELSE d[x]]

\* Secret::is_empty
IsEmpty(d) == DOMAIN d = {}

\* Secret::keys
Keys(d) == DOMAIN d

\* (mutant) a get that hands out the displayed value
GetDisplayed(d, k) ==
    IF k \in DOMAIN d
    THEN [none |-> FALSE, field |-> Field(k, display_value(Field(k, d[k])))]
    ELSE [none |-> TRUE, field |-> Field(k, <<>>)]

\* Secret::get: Option<Field>, none = FALSE when the key is absent
Get(d, k) ==
    IF k \in DOMAIN d THEN [none |-> FALSE, field |-> Field(k, d[k])]
    ELSE [none |-> TRUE, field |-> Field(k, <<>>)]

\* Secret::iter: the fields
Fields(d) == {Field(k, d[k]) : k \in DOMAIN d}

\* serde_json::to_string of the flattened map: the members of one JSON object,
\* in the map's iteration order
Serialize(d, order) ==
    [ok |-> TRUE, pairs |-> [i \in 1..Len(order) |-> <<order[i], d[order[i]]>>]]

\* serde_json::from_str into the flattened map: members inserted left to right
RECURSIVE Deserialize(_)
Deserialize(pairs) ==
    IF pairs = <<>> THEN EmptySecret
    ELSE LET n == Len(pairs)
         IN  Insert(Deserialize(SubSeq(pairs, 1, n - 1)), pairs[n][1], pairs[n][2])

\* a payload that is not a flat JSON object of strings
Malformed == [ok |-> FALSE, pairs |-> <<>>]

(* The JSON text of a payload: serde_json::to_string writes the compact form *)
(* {"k":"v",...} with the quote, the backslash and the newline escaped;      *)
(* serde_json::from_str reads it back, white space between tokens allowed    *)

QUOTE     == "\""
BACKSLASH == "\\"
NEWLINE   == "\n"

\* (mutant) a writer that copies the characters of a string unescaped
escape_none(str) == str

\* the characters of a JSON string literal, between its quotes
RECURSIVE escape(_)
escape(str) ==
    IF str = <<>> THEN <<>>
    ELSE LET c == Head(str)
         IN  (IF c = QUOTE THEN <<BACKSLASH, QUOTE>>
              ELSE IF c = BACKSLASH THEN <<BACKSLASH, BACKSLASH>>
              ELSE IF c = NEWLINE THEN <<BACKSLASH, "n">>
              ELSE <<c>>) \o escape(Tail(str))

quoted(str) == <<QUOTE>> \o escape(str) \o <<QUOTE>>

RECURSIVE members(_)
members(pairs) ==
    IF pairs = <<>> THEN <<>>
    ELSE quoted(pairs[1][1]) \o <<":">> \o quoted(pairs[1][2])
         \o (IF Len(pairs) = 1 THEN <<>> ELSE <<",">> \o members(Tail(pairs)))

\* serde_json::to_string(&data) on the members in iteration order
to_string(pairs) == <<"{">> \o members(pairs) \o <<"}">>

NoString == [ok |-> FALSE, str |-> <<>>, next |-> 0]

\* the index of the first character at or after i that is not white space
RECURSIVE skip_ws(_, _)
skip_ws(t, i) == IF i <= Len(t) /\ t[i] \in {" ", NEWLINE} THEN skip_ws(t, i + 1) ELSE i

\* the rest of a string literal whose opening quote has been read
RECURSIVE read_chars(_, _, _)
read_chars(t, i, acc) ==
    IF i > Len(t) THEN NoString
    ELSE IF t[i] = QUOTE THEN [ok |-> TRUE, str |-> acc, next |-> i + 1]
    ELSE IF t[i] = NEWLINE THEN NoString
    ELSE IF t[i] = BACKSLASH
         THEN IF i + 1 > Len(t) THEN NoString
              ELSE IF t[i + 1] \in {QUOTE, BACKSLASH}
                   THEN read_chars(t, i + 2, Append(acc, t[i + 1]))
              ELSE IF t[i + 1] = "n" THEN read_chars(t, i + 2, Append(acc, NEWLINE))
              ELSE NoString
    ELSE read_chars(t, i + 1, Append(acc, t[i]))

\* a string literal starting at i
read_string(t, i) ==
    IF i <= Len(t) /\ t[i] = QUOTE THEN read_chars(t, i + 1, <<>>) ELSE NoString

\* the members of the object from i on, up to the closing brace and the end
RECURSIVE read_members(_, _, _)
read_members(t, i, acc) ==
    LET k == read_string(t, i)
        c == skip_ws(t, k.next)
        v == read_string(t, skip_ws(t, c + 1))
        e == skip_ws(t, v.next)
    IN  IF ~k.ok \/ c > Len(t) \/ t[c] # ":" THEN Malformed
        ELSE IF ~v.ok \/ e > Len(t) THEN Malformed
        ELSE IF t[e] = "," THEN read_members(t, skip_ws(t, e + 1), Append(acc, <<k.str, v.str>>))
        ELSE IF t[e] = "}" /\ skip_ws(t, e + 1) = Len(t) + 1
             THEN [ok |-> TRUE, pairs |-> Append(acc, <<k.str, v.str>>)]
        ELSE Malformed

\* serde_json::from_str::<Secret>(text): the members of a flat object of strings
from_str(t) ==
    LET o == skip_ws(t, 1)
        m == skip_ws(t, o + 1)
    IN  IF o > Len(t) \/ t[o] # "{" \/ m > Len(t) THEN Malformed
        ELSE IF t[m] = "}"
             THEN IF skip_ws(t, m + 1) = Len(t) + 1 THEN [ok |-> TRUE, pairs |-> <<>>]
                  ELSE Malformed
        ELSE read_members(t, m, <<>>)

----------------------------------------------------------------------------
(* secrets.rs: the backend adapter over one collection's items *)

Item(label, payload) == [label |-> label, secret |-> payload]

\* items_with_label: search_items by {xdg:schema, label}
items_with_label(items, label) ==
    LET Match(it) == it.label = label IN SelectSeq(items, Match)

\* secrets(): the label of every item of the collection, in the order searched
secrets(items) == [i \in 1..Len(items) |-> items[i].label]

\* (mutant) a get_data that decodes the first match whatever their number
get_data_first(items, label) ==
    LET found == items_with_label(items, label)
    IN  IF Len(found) = 0 THEN [err |-> "", secret |-> EmptySecret]
        ELSE IF found[1].secret.ok
             THEN [err |-> "", secret |-> Deserialize(found[1].secret.pairs)]
             ELSE [err |-> "Serialization", secret |-> EmptySecret]

\* get_data(label): Result<Secret>; err = "" is Ok
get_data(items, label) ==
    LET found == items_with_label(items, label)
    IN  IF Len(found) = 0 THEN [err |-> "NotFound", secret |-> EmptySecret]
        ELSE IF Len(found) = 1
             THEN IF found[1].secret.ok
                  THEN [err |-> "", secret |-> Deserialize(found[1].secret.pairs)]
                  ELSE [err |-> "Serialization", secret |-> EmptySecret]
        ELSE [err |-> "Ambiguous", secret |-> EmptySecret]

\* (mutant) a create_item called with replace = false: always a new item
create_item_append(items, label, payload) == Append(items, Item(label, payload))

\* (mutant) a create_item that merges the new members into the item it replaces
create_item_merge(items, label, payload) ==
    LET hits == {i \in 1..Len(items) : items[i].label = label}
    IN  IF hits = {} THEN Append(items, Item(label, payload))
        ELSE LET first == CHOOSE i \in hits : \A j \in hits : i <= j
             IN  [items EXCEPT ![first] =
                    Item(label, [ok |-> payload.ok,
                                 pairs |-> items[first].secret.pairs \o payload.pairs])]

\* create_item(label, attributes, secret, replace = true): the item with the same
\* attributes is replaced in place, otherwise a new item is added
create_item(items, label, payload) ==
    LET hits == {i \in 1..Len(items) : items[i].label = label}
    IN  IF hits = {} THEN Append(items, Item(label, payload))
        ELSE LET first == CHOOSE i \in hits : \A j \in hits : i <= j
             IN  [items EXCEPT ![first] = Item(label, payload)]

----------------------------------------------------------------------------
(* The inputs of a run: what the backend holds and what the user may type *)

WIFI   == <<"w", "i", "f", "i">>
EMAIL  == <<"e", "m", "a", "i", "l">>
USER   == <<"u", "s", "e", "r">>
KEY_AB == <<"a", ":", " ", "b">>
KEY_A_TOKEN == <<"a", ":", " ", "t", "o", "k", "e", "n">>
XYZ    == <<"x", "y", "z">>
AL     == <<"a", "l">>

Payload(pairs) == [ok |-> TRUE, pairs |-> pairs]

\* the states the Secret Service may be in when the run starts
InitBackends ==
    { <<>>,                                     \* no fuzzel-secrets collection yet
      << <<>> >>,                               \* the collection exists and is empty
      << << Item(WIFI, Payload(<< <<PASSWORD, XYZ>> >>)) >> >>,
      << << Item(WIFI, Payload(<< <<USER, AL>>, <<TOKEN, <<"x">> >> >>)),
            Item(EMAIL, Payload(<< <<KEY_AB, <<"c">> >>, <<KEY_A_TOKEN, <<"s">> >> >>)) >> >>,
      \* a record without fields
      << << Item(WIFI, Payload(<< <<PASSWORD, XYZ>> >>)), Item(EMAIL, Payload(<<>>)) >> >>,
      \* two items matching one label (an item another client tagged alike)
      << << Item(WIFI, Payload(<< <<USER, AL>> >>)), Item(EMAIL, Payload(<< <<USER, AL>> >>)),
            Item(WIFI, Payload(<< <<PASSWORD, XYZ>> >>)) >> >>,
      \* an item whose payload does not decode
      << << Item(WIFI, Payload(<< <<USER, AL>> >>)), Item(EMAIL, Malformed) >> >> }

\* what the user may type at a select-or-input or free-text prompt (before trim)
TypedLabels == {EMAIL, <<" ">> \o WIFI}
TypedKeys   == {USER, TOKEN, KEY_AB}
TypedValues == {<<"x">>, <<" ", "y">>}

\* outcomes of running wtype: it ran and succeeded, it ran and exited non-zero,
\* it could not be executed
WtypeOutcomes == {"ok", "nonzero", "not_executed"}

Threads == {"main", "task"}

----------------------------------------------------------------------------
(* State *)

NoEdit == [op |-> "none", key |-> <<>>, used |-> <<>>, value |-> <<>>,
           masked |-> FALSE, before |-> EmptySecret]

HistInit(b) ==
    [ backend0 |-> b,            \* the backend when the run started
      persist  |-> <<>>,         \* calls of secrets::store: <<label, payload>>
      typed    |-> <<>>,         \* values handed to wtype
      wtype    |-> "",           \* outcome of wtype
      err      |-> "",           \* the error the workflow returned
      errAt    |-> "",           \* the step that raised it
      menus    |-> 0,            \* edit-loop menus shown
      fieldPrompts |-> 0,        \* "Field" prompts shown by retrieve
      sel      |-> <<>>,         \* the field key selected in retrieve
      loaded   |-> EmptySecret,  \* the Secret the edit loop started from
      existed  |-> FALSE,        \* the chosen label matched an existing record
      edits    |-> 0,            \* add / edit steps done
      adds     |-> 0,            \* add steps done
      log      |-> <<>>,         \* <<key, value>> as the prompts of each add step returned them
      completed |-> FALSE,       \* "complete" was selected
      last     |-> NoEdit ]      \* the last add / edit step

FldIdle == [stage |-> "idle", f |-> Field(<<>>, <<>>), disp |-> <<>>, parsed |-> ParseErr,
            items |-> <<>>, label |-> <<>>, fetched |-> [err |-> "", secret |-> EmptySecret],
            sens |-> FALSE, text |-> <<>>,
            sec |-> EmptySecret, json |-> <<>>,
            dec |-> [err |-> "", secret |-> EmptySecret]]

TaskInit == [labels |-> <<>>, keys |-> {}, err |-> ""]

\* the second store process: its position, its label, its working Secret, and
\* what it saw of the first process when it loaded and when it persisted
OtherIdle ==
    [pc |-> "idle", label |-> <<>>, data |-> EmptySecret, edits |-> 0, err |-> "",
     mainDoneAtLoad |-> FALSE, mainLoadedAtPersist |-> FALSE, mainDoneAtPersist |-> FALSE]

Init ==
    /\ other = OtherIdle
    /\ fld = FldIdle
    /\ mode \in {"store", "retrieve"}
    /\ pc = IF mode = "store" THEN "start" ELSE "r_list"
    /\ tpc = "none"
    /\ conn = [th \in Threads |-> 0]
    /\ collections \in InitBackends
    /\ all_secrets = <<>>
    /\ requested_secret = <<>>
    /\ data = EmptySecret
    /\ task = TaskInit
    /\ existing_keys = <<>>
    /\ hist = HistInit(collections)

\* the variables of the first process and of the Secret Service
run_main == <<mode, pc, tpc, conn, collections, all_secrets, requested_secret, data, task,
              existing_keys, hist>>

Fail(kind, at) == [hist EXCEPT !.err = kind, !.errAt = at]

----------------------------------------------------------------------------
(* secrets.rs fuzzel_collection: find the collection by label or create it *)

MainBackendCalls == {"s_list", "s_load", "s_persist", "r_list", "r_get"}
TaskBackendCalls == {"t_list", "t_get"}

AtBackendCall(th) ==
    IF th = "main" THEN pc \in MainBackendCalls ELSE tpc \in TaskBackendCalls

\* the collection a backend call of thread th works on: the one it just
\* created, else the first labelled fuzzel-secrets; 0 when there is none yet
Handle(th) ==
    IF conn[th] > 0 THEN conn[th]
    ELSE IF conn[th] = 0 /\ Len(collections) > 0 THEN 1
    ELSE 0

Release(th) == [conn EXCEPT ![th] = 0]

\* service.with_label(COLLECTION_LABEL) returned None
WithLabelNone(th) ==
    /\ AtBackendCall(th)
    /\ conn[th] = 0
    /\ Len(collections) = 0
    /\ conn' = [conn EXCEPT ![th] = -1]
    /\ UNCHANGED <<other, fld, mode, pc, tpc, collections, all_secrets, requested_secret,
                   data, task, existing_keys, hist>>

\* service.create_collection(COLLECTION_LABEL, "", None)
CreateCollection(th) ==
    /\ conn[th] = -1
    /\ collections' = Append(collections, <<>>)
    /\ conn' = [conn EXCEPT ![th] = Len(collections) + 1]
    /\ UNCHANGED <<other, fld, mode, pc, tpc, all_secrets, requested_secret,
                   data, task, existing_keys, hist>>

\* a backend call fails: the service cannot be reached, the search fails or the
\* collection cannot be unlocked (the `?` of secrets.rs)
BackendFails(th) ==
    /\ AtBackendCall(th)
    /\ conn[th] # -1
    /\ conn' = Release(th)
    /\ IF th = "main"
       THEN /\ pc' = "failed"
            /\ hist' = [Fail("Unreachable", pc) EXCEPT
                          !.persist = IF pc = "s_persist"
                                      THEN Append(@, <<requested_secret, data>>) ELSE @]
            /\ UNCHANGED <<tpc, task>>
       ELSE /\ tpc' = "t_failed"
            /\ task' = [task EXCEPT !.err = "Unreachable"]
            /\ UNCHANGED <<pc, hist>>
    /\ UNCHANGED <<other, fld, mode, collections, all_secrets, requested_secret, data, existing_keys>>

----------------------------------------------------------------------------
(* secrets.rs all_field_keys, run as the task spawned by store *)

\* the HashSet of keys, collected and sorted (main.rs existing_keys.sort())
RECURSIVE SortSet(_)
SortSet(S) ==
    IF S = {} THEN <<>>
    ELSE LET m == CHOOSE x \in S : \A y \in S : ~StrLess(y, x)
         IN  <<m>> \o SortSet(S \ {m})

\* `for secret in secrets().await?`
TaskListSecrets ==
    /\ tpc = "t_list"
    /\ Handle("task") > 0
    /\ LET labels == secrets(collections[Handle("task")])
       IN  /\ task' = [labels |-> labels, keys |-> {}, err |-> ""]
           /\ tpc' = IF labels = <<>> THEN "t_done" ELSE "t_get"
    /\ conn' = Release("task")
    /\ UNCHANGED <<other, fld, mode, pc, collections, all_secrets, requested_secret,
                   data, existing_keys, hist>>

\* `let data = get_data(&secret).await?; keys.extend(data.keys().cloned())`
TaskGetData ==
    /\ tpc = "t_get"
    /\ Handle("task") > 0
    /\ LET r == get_data(collections[Handle("task")], Head(task.labels))
       IN  IF r.err # ""
           THEN /\ tpc' = "t_failed"
                /\ task' = [task EXCEPT !.err = r.err]
           ELSE /\ task' = [task EXCEPT !.labels = Tail(@), !.keys = @ \cup Keys(r.secret)]
                /\ tpc' = IF Tail(task.labels) = <<>> THEN "t_done" ELSE "t_get"
    /\ conn' = Release("task")
    /\ UNCHANGED <<other, fld, mode, pc, collections, all_secrets, requested_secret,
                   data, existing_keys, hist>>

----------------------------------------------------------------------------
(* main.rs store *)

\* tokio::spawn(all_field_keys())
StoreSpawn ==
    /\ mode = "store"
    /\ pc = "start"
    /\ pc' = "s_list"
    /\ tpc' = "t_list"
    /\ UNCHANGED <<other, fld, mode, conn, collections, all_secrets, requested_secret,
                   data, task, existing_keys, hist>>

\* secrets::secrets() and all_secrets.sort()
StoreListSecrets ==
    /\ pc = "s_list"
    /\ Handle("main") > 0
    /\ all_secrets' = Sort(secrets(collections[Handle("main")]))
    /\ pc' = "s_label"
    /\ conn' = Release("main")
    /\ UNCHANGED <<other, fld, mode, tpc, collections, requested_secret, data, task,
                   existing_keys, hist>>

\* fuzzel::select_or_input(&all_secrets, "Label"), then the search for an
\* existing record of that name
StoreLabel ==
    /\ pc = "s_label"
    /\ \E reply \in Range(all_secrets) \cup TypedLabels :
         LET label == Trim(reply)
             existing == \E i \in 1..Len(all_secrets) : all_secrets[i] = label
         IN  /\ requested_secret' = label
             /\ pc' = IF existing THEN "s_load" ELSE "s_join"
             /\ hist' = [hist EXCEPT !.existed = existing]
    /\ data' = EmptySecret
    /\ UNCHANGED <<other, fld, mode, tpc, conn, collections, all_secrets, task, existing_keys>>

\* the picker fails at the label prompt
StoreLabelFails ==
    /\ pc = "s_label"
    /\ pc' = "failed"
    /\ hist' = Fail("PickerError", "label")
    /\ UNCHANGED <<other, fld, mode, tpc, conn, collections, all_secrets, requested_secret,
                   data, task, existing_keys>>

\* secrets::get_data(secret) of the existing record
StoreLoad ==
    /\ pc = "s_load"
    /\ Handle("main") > 0
    /\ LET r == get_data(collections[Handle("main")], requested_secret)
       IN  IF r.err # ""
           THEN /\ pc' = "failed"
                /\ hist' = Fail(r.err, "load")
                /\ data' = data
           ELSE /\ pc' = "s_join"
                /\ data' = r.secret
                /\ hist' = [hist EXCEPT !.loaded = r.secret]
    /\ conn' = Release("main")
    /\ UNCHANGED <<other, fld, mode, tpc, collections, all_secrets, requested_secret, task,
                   existing_keys>>

\* (mutant) a join that treats the suggestions as best effort
StoreJoinBestEffort ==
    /\ pc = "s_join"
    /\ tpc \in {"t_done", "t_failed"}
    /\ pc' = "s_menu"
    /\ existing_keys' = IF tpc = "t_failed" THEN <<>> ELSE SortSet(task.keys)
    /\ UNCHANGED <<other, fld, mode, tpc, conn, collections, all_secrets, requested_secret,
                   data, task, hist>>

\* existing_keys_task.await, both `?`, and existing_keys.sort()
StoreJoin ==
    /\ pc = "s_join"
    /\ tpc \in {"t_done", "t_failed"}
    /\ IF tpc = "t_failed"
       THEN /\ pc' = "failed"
            /\ hist' = Fail(task.err, "join")
            /\ existing_keys' = existing_keys
       ELSE /\ pc' = "s_menu"
            /\ existing_keys' = SortSet(task.keys)
            /\ hist' = hist
    /\ UNCHANGED <<other, fld, mode, tpc, conn, collections, all_secrets, requested_secret,
                   data, task>>

\* field_items: every field displayed, sorted
FieldItems(d) ==
    LET ks == SortSet(Keys(d))
    IN  Sort([i \in 1..Len(ks) |-> display(Field(ks[i], d[ks[i]]))])

\* menu_items: the two options, then the fields
MenuItems(d) == <<add_field_option, complete_option>> \o FieldItems(d)

\* request_password for a sensitive key, request_input otherwise
Masked(key) == is_key_sensitive(key)

\* the value prompt of "add field": format!("Value for '{}'", key)
add_prompt(key) ==
    [masked |-> Masked(key),
     text |-> <<"V", "a", "l", "u", "e", " ", "f", "o", "r", " ", "'">> \o key \o <<"'">>]

\* the value prompt of an edited entry: format!("New value for '{}'", field.key)
edit_prompt(selection) ==
    LET field == parse_from_display(selection)
    IN  [masked |-> Masked(field.key),
         text |-> <<"N", "e", "w", " ", "v", "a", "l", "u", "e", " ", "f", "o", "r", " ", "'">>
                  \o field.key \o <<"'">>]

\* (mutant) a loop that saves what was edited so far when a picker call fails
StoreLoopPickerFailsSaving ==
    /\ pc = "s_menu"
    /\ pc' = "failed"
    /\ hist' = [Fail("PickerError", "menu") EXCEPT !.menus = @ + 1]
    /\ collections' = [collections EXCEPT ![1] =
                          create_item(@, requested_secret,
                                      Serialize(data, SortSet(Keys(data))))]
    /\ UNCHANGED <<other, fld, mode, tpc, conn, all_secrets, requested_secret,
                   data, task, existing_keys>>

\* a picker call of one loop iteration fails: the menu, the field name prompt
\* or the value prompt of "add field", or the value prompt of an edited field
StoreLoopPickerFails ==
    /\ pc = "s_menu"
    /\ \E at \in {"menu", "field name", "value"} \cup
                 (IF IsEmpty(data) THEN {} ELSE {"new value"}) :
         hist' = [Fail("PickerError", at) EXCEPT !.menus = @ + 1]
    /\ pc' = "failed"
    /\ UNCHANGED <<other, fld, mode, tpc, conn, collections, all_secrets, requested_secret,
                   data, task, existing_keys>>

\* (mutant) a completion without the emptiness check
StoreCompleteUnchecked ==
    /\ pc = "s_menu"
    /\ pc' = "s_persist"
    /\ hist' = [hist EXCEPT !.menus = @ + 1, !.completed = TRUE]
    /\ UNCHANGED <<other, fld, mode, tpc, conn, collections, all_secrets, requested_secret,
                   data, task, existing_keys>>

\* selection == complete_option: break, then the emptiness check
StoreComplete ==
    /\ pc = "s_menu"
    /\ \E idx \in 1..Len(MenuItems(data)) :
         /\ MenuItems(data)[idx] = complete_option
         /\ IF IsEmpty(data)
            THEN /\ pc' = "failed"
                 /\ hist' = [Fail("EmptyRecord", "complete") EXCEPT
                               !.menus = @ + 1, !.completed = TRUE]
            ELSE /\ pc' = "s_persist"
                 /\ hist' = [hist EXCEPT !.menus = @ + 1, !.completed = TRUE]
    /\ UNCHANGED <<other, fld, mode, tpc, conn, collections, all_secrets, requested_secret,
                   data, task, existing_keys>>

\* selection == add_field_option: ask for the key, then for the value, insert
StoreAddField ==
    /\ pc = "s_menu"
    /\ hist.edits < MaxEdits
    /\ \E idx \in 1..Len(MenuItems(data)) :
         /\ MenuItems(data)[idx] # complete_option
         /\ MenuItems(data)[idx] = add_field_option
    /\ \E kreply \in Range(existing_keys) \cup TypedKeys, vreply \in TypedValues :
         LET key == Trim(kreply)
             value == Trim(vreply)
         IN  /\ data' = Insert(data, key, value)
             /\ hist' = [hist EXCEPT
                           !.menus = @ + 1, !.edits = @ + 1, !.adds = @ + 1,
                           !.log = Append(@, <<key, value>>),
                           !.last = [op |-> "add", key |-> key, used |-> key,
                                     value |-> value, masked |-> Masked(key),
                                     before |-> data]]
    /\ pc' = "s_menu"
    /\ UNCHANGED <<other, fld, mode, tpc, conn, collections, all_secrets, requested_secret,
                   task, existing_keys>>

\* any other selection: the display string of field f; parse it back, ask for
\* the new value, insert under the parsed key
StoreEditField ==
    /\ pc = "s_menu"
    /\ hist.edits < MaxEdits
    /\ \E idx \in 1..Len(MenuItems(data)), f \in Fields(data), vreply \in TypedValues :
         LET selection == MenuItems(data)[idx]
             field == parse_from_display(selection)
             value == Trim(vreply)
         IN  /\ selection # complete_option
             /\ selection # add_field_option
             /\ display(f) = selection
             /\ IF ~field.ok
                THEN /\ pc' = "failed"
                     /\ hist' = [Fail("Format", "parse") EXCEPT !.menus = @ + 1]
                     /\ data' = data
                ELSE /\ pc' = "s_menu"
                     /\ data' = Insert(data, field.key, value)
                     /\ hist' = [hist EXCEPT
                                   !.menus = @ + 1, !.edits = @ + 1,
                                   !.last = [op |-> "edit", key |-> f.key,
                                             used |-> field.key, value |-> value,
                                             masked |-> Masked(field.key),
                                             before |-> data]]
    /\ UNCHANGED <<other, fld, mode, tpc, conn, collections, all_secrets, requested_secret,
                   task, existing_keys>>

\* secrets::store(&requested_secret, data): serialize, create_item with replace
StorePersist ==
    /\ pc = "s_persist"
    /\ Handle("main") > 0
    /\ \E order \in Orders(Keys(data)) :
         collections' = [collections EXCEPT ![Handle("main")] =
                            create_item(@, requested_secret, Serialize(data, order))]
    /\ hist' = [hist EXCEPT !.persist = Append(@, <<requested_secret, data>>)]
    /\ pc' = "done"
    /\ conn' = Release("main")
    /\ UNCHANGED <<other, fld, mode, tpc, all_secrets, requested_secret, data, task, existing_keys>>

----------------------------------------------------------------------------
(* main.rs retrieve *)

\* secrets::secrets() and all_secrets.sort()
RetrieveListSecrets ==
    /\ pc = "r_list"
    /\ Handle("main") > 0
    /\ all_secrets' = Sort(secrets(collections[Handle("main")]))
    /\ pc' = "r_select"
    /\ conn' = Release("main")
    /\ UNCHANGED <<other, fld, mode, tpc, collections, requested_secret, data, task,
                   existing_keys, hist>>

\* fuzzel::select(&all_secrets, "Select secret")
RetrieveSelect ==
    /\ pc = "r_select"
    /\ \E index \in 1..Len(all_secrets) : requested_secret' = all_secrets[index]
    /\ pc' = "r_get"
    /\ UNCHANGED <<other, fld, mode, tpc, conn, collections, all_secrets, data, task,
                   existing_keys, hist>>

\* fuzzel fails, is dismissed, or answers with no index of the list
RetrieveSelectFails ==
    /\ pc = "r_select"
    /\ pc' = "failed"
    /\ hist' = Fail("PickerError", "select secret")
    /\ UNCHANGED <<other, fld, mode, tpc, conn, collections, all_secrets, requested_secret,
                   data, task, existing_keys>>

\* (mutant) a fetch without the emptiness check
RetrieveGetDataUnchecked ==
    /\ pc = "r_get"
    /\ Handle("main") > 0
    /\ LET r == get_data(collections[Handle("main")], requested_secret)
       IN  IF r.err # ""
           THEN /\ pc' = "failed" /\ hist' = Fail(r.err, "get") /\ data' = data
           ELSE /\ pc' = "r_field" /\ hist' = hist /\ data' = r.secret
    /\ conn' = Release("main")
    /\ UNCHANGED <<other, fld, mode, tpc, collections, all_secrets, requested_secret, task,
                   existing_keys>>

\* secrets::get_data(&requested_secret), then the emptiness check
RetrieveGetData ==
    /\ pc = "r_get"
    /\ Handle("main") > 0
    /\ LET r == get_data(collections[Handle("main")], requested_secret)
       IN  IF r.err # ""
           THEN /\ pc' = "failed" /\ hist' = Fail(r.err, "get") /\ data' = data
           ELSE IF IsEmpty(r.secret)
           THEN /\ pc' = "failed" /\ hist' = Fail("EmptyRecord", "get") /\ data' = r.secret
           ELSE /\ pc' = "r_field" /\ hist' = hist /\ data' = r.secret
    /\ conn' = Release("main")
    /\ UNCHANGED <<other, fld, mode, tpc, collections, all_secrets, requested_secret, task,
                   existing_keys>>

\* fuzzel::select(&fields, "Field"), data.get(&field), wtype -- value
RetrieveField ==
    /\ pc = "r_field"
    /\ \E fields \in Orders(Keys(data)), out \in WtypeOutcomes :
         \E index \in 1..Len(fields) :
           LET field == fields[index]
               value == Get(data, field)
           IN  IF value.none
               THEN /\ pc' = "failed"
                    /\ hist' = [Fail("FieldNotFound", "get field") EXCEPT
                                  !.fieldPrompts = @ + 1, !.sel = field]
               ELSE /\ pc' = IF out = "not_executed" THEN "failed" ELSE "done"
                    /\ hist' = [hist EXCEPT
                                  !.fieldPrompts = @ + 1, !.sel = field,
                                  !.typed = Append(@, value.field.value),
                                  !.wtype = out,
                                  !.err = IF out = "not_executed" THEN "Injection" ELSE @,
                                  !.errAt = IF out = "not_executed" THEN "wtype" ELSE @]
    /\ UNCHANGED <<other, fld, mode, tpc, conn, collections, all_secrets, requested_secret,
                   data, task, existing_keys>>

\* the picker fails at the field prompt
RetrieveFieldFails ==
    /\ pc = "r_field"
    /\ pc' = "failed"
    /\ hist' = [Fail("PickerError", "select field") EXCEPT !.fieldPrompts = @ + 1]
    /\ UNCHANGED <<other, fld, mode, tpc, conn, collections, all_secrets, requested_secret,
                   data, task, existing_keys>>

----------------------------------------------------------------------------
(* The run *)

Next ==
    \/ \E th \in Threads : WithLabelNone(th)
    \/ \E th \in Threads : CreateCollection(th)
    \/ \E th \in Threads : BackendFails(th)
    \/ TaskListSecrets
    \/ TaskGetData
    \/ StoreSpawn
    \/ StoreListSecrets
    \/ StoreLabel
    \/ StoreLabelFails
    \/ StoreLoad
    \/ StoreJoin
    \/ StoreLoopPickerFails
    \/ StoreComplete
    \/ StoreAddField
    \/ StoreEditField
    \/ StorePersist
    \/ RetrieveListSecrets
    \/ RetrieveSelect
    \/ RetrieveSelectFails
    \/ RetrieveGetData
    \/ RetrieveField
    \/ RetrieveFieldFails

Spec == Init /\ [][Next]_vars

----------------------------------------------------------------------------
(* Two store processes on one Secret Service: the run above and a second     *)
(* process that executes the same store code on a label of an existing record *)

\* the backends with one collection whose only record is "wifi"
RaceBackends ==
    {b \in InitBackends : Len(b) = 1 /\ Len(b[1]) = 1 /\ get_data(b[1], WIFI).err = ""}

OtherKeys   == {USER, PASSWORD}
OtherValues == {<<"o">>}

InitRace ==
    /\ other = [OtherIdle EXCEPT !.pc = "o_load", !.label = WIFI]
    /\ fld = FldIdle
    /\ mode = "store"
    /\ pc = "start"
    /\ tpc = "none"
    /\ conn = [th \in Threads |-> 0]
    /\ collections \in RaceBackends
    /\ all_secrets = <<>>
    /\ requested_secret = <<>>
    /\ data = EmptySecret
    /\ task = TaskInit
    /\ existing_keys = <<>>
    /\ hist = HistInit(collections)

\* the first process has its working Secret (loaded, or new for a new label)
MainLoaded == pc \in {"s_join", "s_menu", "s_persist", "done"}

\* the first process has persisted
MainDone == pc = "done"

\* the second process: secrets::get_data(secret) of the existing record
OtherLoad ==
    /\ other.pc = "o_load"
    /\ LET r == get_data(collections[1], other.label)
       IN  other' = IF r.err # ""
                    THEN [other EXCEPT !.pc = "failed", !.err = r.err]
                    ELSE [other EXCEPT !.pc = "o_menu", !.data = r.secret,
                                       !.mainDoneAtLoad = MainDone]
    /\ UNCHANGED <<fld, run_main>>

\* the second process: one iteration of its loop that inserts a field
OtherEdit ==
    /\ other.pc = "o_menu"
    /\ other.edits < MaxOtherEdits
    /\ \E key \in OtherKeys, value \in OtherValues :
         other' = [other EXCEPT !.data = Insert(@, key, value), !.edits = @ + 1]
    /\ UNCHANGED <<fld, run_main>>

\* the second process: "complete" and the empty check
OtherComplete ==
    /\ other.pc = "o_menu"
    /\ other' = IF IsEmpty(other.data)
                THEN [other EXCEPT !.pc = "failed", !.err = "EmptyRecord"]
                ELSE [other EXCEPT !.pc = "o_persist"]
    /\ UNCHANGED <<fld, run_main>>

\* the second process: secrets::store(&requested_secret, data)
OtherPersist ==
    /\ other.pc = "o_persist"
    /\ \E order \in Orders(Keys(other.data)) :
         collections' = [collections EXCEPT ![1] =
                            create_item(@, other.label, Serialize(other.data, order))]
    /\ other' = [other EXCEPT !.pc = "done", !.mainLoadedAtPersist = MainLoaded,
                              !.mainDoneAtPersist = MainDone]
    /\ UNCHANGED <<fld, mode, pc, tpc, conn, all_secrets, requested_secret, data, task,
                   existing_keys, hist>>

NextRace ==
    \/ \E th \in Threads : BackendFails(th)
    \/ TaskListSecrets
    \/ TaskGetData
    \/ StoreSpawn
    \/ StoreListSecrets
    \/ StoreLabel
    \/ StoreLabelFails
    \/ StoreLoad
    \/ StoreJoin
    \/ StoreLoopPickerFails
    \/ StoreComplete
    \/ StoreAddField
    \/ StoreEditField
    \/ StorePersist
    \/ OtherLoad
    \/ OtherEdit
    \/ OtherComplete
    \/ OtherPersist

SpecRace == InitRace /\ [][NextRace]_vars

----------------------------------------------------------------------------
(* The units: Field::display / Field::parse_from_display on bounded fields, *)
(* and get_data on bounded collections                                      *)

RECURSIVE Strs(_, _)
Strs(atoms, n) ==
    IF n = 0 THEN {<<>>}
    ELSE LET shorter == Strs(atoms, n - 1)
         IN  shorter \cup {s \o a : s \in shorter, a \in atoms}

KeyAtoms   == {<<"a">>, <<":">>, <<" ">>, SEP, TOKEN, <<"S", "e", "c", "r", "e", "t">>}
ValueAtoms == {<<"x">>, <<":">>, <<" ">>, MASK}
TextAtoms  == {<<"a">>, <<":">>, <<" ">>, SEP}

UnitFields == {Field(k, v) : k \in Strs(KeyAtoms, MaxKeyAtoms), v \in Strs(ValueAtoms, MaxValueAtoms)}

UnitItem == {Item(l, p) : l \in {WIFI, EMAIL},
                          p \in {Payload(<< <<USER, AL>> >>), Payload(<<>>), Malformed}}

\* keys and values with spaces, colons and the characters JSON escapes
JsonKeys   == {<<>>, USER, KEY_AB, <<"q", QUOTE>>, <<BACKSLASH>>, <<"}", ",">>}
JsonValues == {<<>>, XYZ, <<QUOTE, ":", QUOTE>>, <<BACKSLASH, QUOTE, NEWLINE>>}

\* the Secrets of at most MaxFields fields
UnitSecrets ==
    UNION {[ks -> JsonValues] : ks \in {q \in SUBSET JsonKeys : Cardinality(q) <= MaxFields}}

RECURSIVE ItemSeqs(_)
ItemSeqs(n) ==
    IF n = 0 THEN {<<>>}
    ELSE LET shorter == ItemSeqs(n - 1)
         IN  shorter \cup {Append(q, it) : q \in shorter, it \in UnitItem}

RunIdle ==
    /\ other = OtherIdle
    /\ mode = "unit"
    /\ pc = "unit"
    /\ tpc = "none"
    /\ conn = [th \in Threads |-> 0]
    /\ collections = <<>>
    /\ all_secrets = <<>>
    /\ requested_secret = <<>>
    /\ data = EmptySecret
    /\ task = TaskInit
    /\ existing_keys = <<>>
    /\ hist = HistInit(<<>>)

InitUnit ==
    /\ RunIdle
    /\ \/ \E f \in UnitFields : fld = [FldIdle EXCEPT !.stage = "new", !.f = f]
       \/ \E t \in Strs(TextAtoms, MaxTextAtoms) :
            fld = [FldIdle EXCEPT !.stage = "text", !.text = t]
       \/ \E items \in ItemSeqs(MaxItems), label \in {WIFI, EMAIL} :
            fld = [FldIdle EXCEPT !.stage = "query", !.items = items, !.label = label]
       \/ \E sec \in UnitSecrets : fld = [FldIdle EXCEPT !.stage = "secret", !.sec = sec]

run == <<other, mode, pc, tpc, conn, collections, all_secrets, requested_secret, data, task,
         existing_keys, hist>>

\* f.is_sensitive() and f.display()
UnitDisplay ==
    /\ fld.stage = "new"
    /\ fld' = [fld EXCEPT !.stage = "shown", !.disp = display(fld.f),
                          !.sens = is_sensitive(fld.f)]
    /\ UNCHANGED run

\* Field::parse_from_display(text) on any string
UnitParseText ==
    /\ fld.stage = "text"
    /\ fld' = [fld EXCEPT !.stage = "parsed_text", !.parsed = parse_from_display(fld.text)]
    /\ UNCHANGED run

\* Field::parse_from_display(&display)
UnitParse ==
    /\ fld.stage = "shown"
    /\ fld' = [fld EXCEPT !.stage = "parsed", !.parsed = parse_from_display(fld.disp)]
    /\ UNCHANGED run

\* secrets::get_data(label)
UnitGetData ==
    /\ fld.stage = "query"
    /\ fld' = [fld EXCEPT !.stage = "fetched", !.fetched = get_data(fld.items, fld.label)]
    /\ UNCHANGED run

\* secrets::store: serde_json::to_string(&data), the map iterated in any order
UnitSerialize ==
    /\ fld.stage = "secret"
    /\ \E order \in Orders(Keys(fld.sec)) :
         fld' = [fld EXCEPT !.stage = "json",
                            !.json = to_string(Serialize(fld.sec, order).pairs)]
    /\ UNCHANGED run

\* secrets::get_data: serde_json::from_str(&text) with the Serialization context
UnitDeserialize ==
    /\ fld.stage = "json"
    /\ LET doc == from_str(fld.json)
       IN  fld' = [fld EXCEPT !.stage = "decoded",
                              !.dec = IF doc.ok
                                      THEN [err |-> "", secret |-> Deserialize(doc.pairs)]
                                      ELSE [err |-> "Serialization", secret |-> EmptySecret]]
    /\ UNCHANGED run

NextUnit ==
    \/ UnitDisplay
    \/ UnitParse
    \/ UnitParseText
    \/ UnitGetData
    \/ UnitSerialize
    \/ UnitDeserialize

SpecUnit == InitUnit /\ [][NextUnit]_vars

\* the runs and the units together
SpecAll == (Init \/ InitUnit) /\ [][Next \/ NextUnit]_vars

----------------------------------------------------------------------------
(* Properties *)

\* every item of every collection, in order
RECURSIVE Records(_)
Records(b) == IF b = <<>> THEN <<>> ELSE Head(b) \o Records(Tail(b))

\* the items tagged with a label, counted in the backend itself
Matches(b, label) == {i \in 1..Len(Records(b)) : Records(b)[i].label = label}

\* the value the last add step gave to key k
LastLogged(log, k) ==
    LET at == {i \in 1..Len(log) : log[i][1] = k}
        last == CHOOSE i \in at : \A j \in at : j <= i
    IN  log[last][2]

LoggedKeys(log) == {log[i][1] : i \in 1..Len(log)}

\* the workflow has called secrets::store
PersistCalled == pc = "done" \/ (pc = "failed" /\ hist.errAt = "s_persist")

\* C1: a store run on a new label that only adds fields and then completes makes
\* exactly one persist call, under the chosen label, with the Secret that maps
\* every entered key to the last value entered for it and holds nothing else;
\* once stored, the backend holds that mapping under the label
C1_NewRecordPersisted ==
    /\ Len(hist.persist) <= 1
    /\ ( /\ mode = "store"
         /\ ~hist.existed
         /\ hist.completed
         /\ hist.adds > 0
         /\ hist.adds = hist.edits
         /\ PersistCalled )
       => /\ Len(hist.persist) = 1
          /\ hist.persist[1][1] = requested_secret
          /\ LET saved == hist.persist[1][2]
             IN  /\ DOMAIN saved = LoggedKeys(hist.log)
                 /\ \A k \in DOMAIN saved : saved[k] = LastLogged(hist.log, k)
                 /\ pc = "done" =>
                      \E i \in 1..Len(Records(collections)) :
                        /\ Matches(collections, requested_secret) = {i}
                        /\ Records(collections)[i].secret.ok
                        /\ Deserialize(Records(collections)[i].secret.pairs) = saved

\* C1 witness: a key entered twice with different values, then stored on a new label
C1_Witness ==
    /\ mode = "store" /\ pc = "done" /\ ~hist.existed
    /\ hist.adds = 2 /\ hist.edits = 2
    /\ hist.log[1][1] = hist.log[2][1]
    /\ hist.log[1][2] # hist.log[2][2]

\* C2: after the menu entry of an existing field with key k was selected, the
\* value v entered and the record completed, the persisted Secret has the key
\* set it had before the edit, maps k to v, and keeps every other value
C2_EditChangesOnlyThatField ==
    ( /\ mode = "store"
      /\ pc = "done"
      /\ hist.existed
      /\ hist.edits = 1
      /\ hist.last.op = "edit" )
    => LET saved == hist.persist[1][2]
           before == hist.last.before
           k == hist.last.key
       IN  /\ DOMAIN saved = DOMAIN before
           /\ saved[k] = hist.last.value
           /\ \A x \in (DOMAIN before) \ {k} : saved[x] = before[x]

\* C3: the value handed to wtype is the stored value of the selected field of
\* the selected record, read from the backend's payload, and the lookup of the
\* selected key never fails
C3_TypesRawValue ==
    mode = "retrieve" =>
      /\ hist.err # "FieldNotFound"
      /\ Len(hist.typed) <= 1
      /\ hist.typed # <<>> =>
           \E i \in 1..Len(Records(hist.backend0)) :
             LET it == Records(hist.backend0)[i]
             IN  /\ Matches(hist.backend0, requested_secret) = {i}
                 /\ \E j \in 1..Len(it.secret.pairs) :
                      /\ it.secret.pairs[j][1] = hist.sel
                      /\ it.secret.pairs[j][2] = hist.typed[1]

\* C3 witness: the value of a sensitive field was typed, and it is not the mask
C3_Witness ==
    /\ mode = "retrieve" /\ pc = "done"
    /\ requested_secret = WIFI
    /\ hist.sel = PASSWORD
    /\ is_key_sensitive(hist.sel)
    /\ hist.typed = <<XYZ>>

\* C4: a store run that a picker failure ended has made no persist call and
\* left the backend's records as they were
C4_PickerFailureSavesNothing ==
    (mode = "store" /\ hist.err = "PickerError")
    => /\ pc = "failed"
       /\ hist.persist = <<>>
       /\ Records(collections) = Records(hist.backend0)

\* C4 witness: the value prompt failed after an edit of an existing record
C4_Witness ==
    /\ mode = "store" /\ pc = "failed"
    /\ hist.err = "PickerError" /\ hist.errAt = "new value"
    /\ hist.existed /\ hist.edits >= 1
    /\ data # hist.loaded

\* C5: selecting "complete" with an empty working Secret fails with
\* EmptyRecord and no persist call; persist is only ever called with fields
C5_EmptyIsNotPersisted ==
    mode = "store" =>
      /\ (hist.completed /\ IsEmpty(data)) =>
            /\ pc = "failed"
            /\ hist.err = "EmptyRecord"
            /\ hist.persist = <<>>
      /\ pc = "s_persist" => ~IsEmpty(data)
      /\ \A i \in 1..Len(hist.persist) : ~IsEmpty(hist.persist[i][2])

\* C5 witness: "complete" on a new label with nothing added
C5_Witness ==
    /\ mode = "store" /\ hist.completed /\ IsEmpty(data)
    /\ pc = "failed" /\ hist.err = "EmptyRecord"

\* the record fetched for the chosen label has no field
FetchedEmptyRecord ==
    /\ mode = "retrieve"
    /\ pc \notin {"r_list", "r_select", "r_get"}
    /\ hist.errAt \notin {"r_list", "select secret", "r_get"}
    /\ \E i \in 1..Len(Records(hist.backend0)) :
         /\ Matches(hist.backend0, requested_secret) = {i}
         /\ Records(hist.backend0)[i].secret.ok
         /\ Records(hist.backend0)[i].secret.pairs = <<>>

\* C6: a retrieve run that fetched a record without fields fails with
\* EmptyRecord, shows no field prompt and types nothing
C6_EmptyRecordNotRetrieved ==
    FetchedEmptyRecord =>
      /\ pc = "failed"
      /\ hist.err = "EmptyRecord"
      /\ hist.fieldPrompts = 0
      /\ hist.typed = <<>>

\* C6 witness: the record without fields was selected and fetched
C6_Witness == FetchedEmptyRecord /\ requested_secret = EMAIL /\ pc = "failed"

\* the main workflow has fetched the record of the chosen label
MainFetched ==
    \/ /\ mode = "store" /\ hist.existed
       /\ pc \notin {"s_label", "s_load"} /\ hist.errAt # "s_load"
    \/ /\ mode = "retrieve"
       /\ pc \notin {"r_list", "r_select", "r_get"}
       /\ hist.errAt \notin {"r_list", "select secret", "r_get"}

\* C7: get_data fails with NotFound exactly when no item matches the label and
\* with Ambiguous exactly when two or more match; a run whose fetch failed so,
\* in the workflow or in the background task, has failed or will fail at the
\* join, with no persist call and nothing typed
C7_FetchErrors ==
    /\ fld.stage = "fetched" =>
         LET n == Cardinality({i \in 1..Len(fld.items) : fld.items[i].label = fld.label})
         IN  /\ fld.fetched.err = "NotFound" <=> n = 0
             /\ fld.fetched.err = "Ambiguous" <=> n >= 2
    /\ MainFetched =>
         LET n == Cardinality(Matches(hist.backend0, requested_secret))
         IN  /\ n = 0 => (pc = "failed" /\ hist.err = "NotFound")
             /\ n >= 2 => (pc = "failed" /\ hist.err = "Ambiguous")
    /\ (hist.err \in {"NotFound", "Ambiguous"} \/ task.err \in {"NotFound", "Ambiguous"}) =>
         /\ pc \notin {"s_menu", "s_persist", "done", "r_field"}
         /\ hist.persist = <<>>
         /\ hist.typed = <<>>
         /\ Records(collections) = Records(hist.backend0)

\* C7 witness: a retrieve run ended by an ambiguous label
C7_Witness ==
    /\ mode = "retrieve" /\ pc = "failed" /\ hist.err = "Ambiguous"
    /\ Cardinality(Matches(collections, requested_secret)) = 2

\* C8: the key fetch is started before the label prompt and has ended well
\* before any edit menu is shown; when it failed the workflow shows no menu,
\* makes no persist call and, at the join, fails with the task's error
C8_JoinBeforeLoop ==
    mode = "store" =>
      /\ pc \notin {"start", "s_list"} => tpc # "none"
      /\ (hist.menus > 0 \/ pc \in {"s_menu", "s_persist", "done"}) => tpc = "t_done"
      /\ tpc = "t_failed" =>
           /\ hist.menus = 0
           /\ hist.persist = <<>>
           /\ pc \notin {"s_menu", "s_persist", "done"}
           /\ hist.errAt = "join" => (pc = "failed" /\ hist.err = task.err)
      /\ hist.errAt = "join" => tpc = "t_failed"

\* C8 witness: the task failed on a record other than the chosen one, and the
\* workflow failed at the join
C8_Witness ==
    /\ mode = "store" /\ pc = "failed" /\ hist.errAt = "join"
    /\ tpc = "t_failed" /\ task.err = "Serialization"
    /\ requested_secret = WIFI
    /\ hist.loaded # EmptySecret

\* C9: for every non-sensitive field f, parse_from_display(display(f)) succeeds
\* and gives back f: the same key and the same value
C9_RoundTripNonSensitive ==
    (fld.stage = "parsed" /\ ~is_sensitive(fld.f))
    => /\ fld.parsed.ok
       /\ fld.parsed.key = fld.f.key
       /\ fld.parsed.value = fld.f.value

\* C10: for every sensitive field f, parse_from_display(display(f)) succeeds
\* with f's key and the 8-asterisk mask as value, and is sensitive again
C10_RoundTripSensitive ==
    (fld.stage = "parsed" /\ is_sensitive(fld.f))
    => /\ fld.parsed.ok
       /\ fld.parsed.key = fld.f.key
       /\ fld.parsed.value = MASK
       /\ is_key_sensitive(fld.parsed.key)

\* the key, lowercased letter by letter, holds word w at position i
HoldsAt(key, w, i) ==
    /\ i + Len(w) - 1 <= Len(key)
    /\ \A j \in 1..Len(w) :
         key[i + j - 1] = w[j] \/ (key[i + j - 1] = "S" /\ w[j] = "s")
                               \/ (key[i + j - 1] = "T" /\ w[j] = "t")

\* C11: a field is sensitive exactly when its key, lowercased, holds "password",
\* "secret" or "token", whatever its value; its display is the key, ": " and
\* eight asterisks when it is sensitive, and the key, ": " and the value otherwise
C11_SensitivityAndDisplay ==
    fld.stage \in {"shown", "parsed"} =>
      LET key == fld.f.key
          words == {<<"p", "a", "s", "s", "w", "o", "r", "d">>,
                    <<"s", "e", "c", "r", "e", "t">>,
                    <<"t", "o", "k", "e", "n">>}
      IN  /\ fld.sens <=> \E w \in words : \E i \in 1..Len(key) : HoldsAt(key, w, i)
          /\ fld.sens => fld.disp = key \o <<":", " ", "*", "*", "*", "*", "*", "*", "*", "*">>
          /\ ~fld.sens => fld.disp = key \o <<":", " ">> \o fld.f.value

\* C11 witness: a key that is sensitive only once lowercased, with a value
\* that is not eight characters long, was displayed
C11_Witness ==
    /\ fld.stage = "shown"
    /\ fld.sens
    /\ fld.f.key = <<"S", "e", "c", "r", "e", "t">>
    /\ Len(fld.f.value) = 1
    /\ Len(fld.disp) = Len(fld.f.key) + 10

\* position i of the text starts a separator
SepAt(t, i) == i + 1 <= Len(t) /\ t[i] = ":" /\ t[i + 1] = " "

\* C12: parse_from_display fails on every string without ": " and succeeds on
\* every string with it, the key being the text before the first ": " and the
\* value all the text after it
C12_ParseSplitsAtFirstSeparator ==
    fld.stage = "parsed_text" =>
      LET t == fld.text
          r == fld.parsed
      IN  /\ r.ok <=> \E i \in 1..Len(t) : SepAt(t, i)
          /\ r.ok =>
               /\ t = r.key \o <<":", " ">> \o r.value
               /\ \A i \in 1..Len(r.key) : ~SepAt(t, i)

\* C12 witness: a string with two separators was parsed
C12_Witness ==
    /\ fld.stage = "parsed_text"
    /\ fld.text = <<"a", ":", " ", ":", " ", "a">>
    /\ fld.parsed.ok
    /\ fld.parsed.key = <<"a">>

\* C13: when wtype does not deliver the value (it cannot be executed, or it
\* runs and exits with a failure status), the retrieve run ends failed, with
\* the injection error
C13_InjectionFailureFailsRun ==
    (mode = "retrieve" /\ hist.wtype \in {"nonzero", "not_executed"})
    => (pc = "failed" /\ hist.err = "Injection")

\* C14: serialising a Secret to its JSON text and deserialising that text gives
\* a Secret with the same keys and the same value for every key, without error
C14_SerializeRoundTrip ==
    fld.stage = "decoded" => (fld.dec.err = "" /\ fld.dec.secret = fld.sec)

C14_Witness ==
    /\ fld.stage = "decoded"
    /\ Cardinality(DOMAIN fld.sec) = 3
    /\ {<<"q", QUOTE>>, KEY_AB} \subseteq DOMAIN fld.sec
    /\ fld.sec[KEY_AB] = <<BACKSLASH, QUOTE, NEWLINE>>
    /\ fld.dec.secret = fld.sec

\* C15: every value prompt of the edit loop, for an added field or for a field
\* edited through its menu entry, is the masked prompt exactly when the key of
\* that field is sensitive
C15_SensitiveKeyMaskedPrompt ==
    hist.last.op # "none" => (hist.last.masked <=> is_key_sensitive(hist.last.key))

\* every key of every record of the backend
AllKeys(cols) ==
    UNION {Keys(Deserialize(Records(cols)[i].secret.pairs)) : i \in 1..Len(Records(cols))}

\* the Secrets with the keys of d and its values for the keys that are not
\* sensitive, whatever the values of the sensitive keys
Variants(d) ==
    LET sens == {k \in DOMAIN d : is_key_sensitive(k)}
        vals == {XYZ, <<"a", ":", " ", "a">>}
    IN  {[k \in DOMAIN d |-> IF k \in sens THEN f[k] ELSE d[k]] : f \in [sens -> vals]}

\* what an iteration of the edit loop on working Secret d hands to the picker:
\* the menu, and the value prompt of each of its field entries
Shown(d) ==
    [menu |-> MenuItems(d),
     prompts |-> [i \in 3..Len(MenuItems(d)) |-> edit_prompt(MenuItems(d)[i])]]

\* C16: at every menu of the edit loop, a working Secret that differs only in
\* the values of sensitive keys gives the same menu (entries and order) and the
\* same value prompts; the suggestion list is the sorted keys of the backend's
\* records; a store run hands nothing to wtype
C16_SensitiveValuesNotShown ==
    (mode = "store" /\ pc = "s_menu")
    => /\ LET shown == Shown(data) IN \A e \in Variants(data) : Shown(e) = shown
       /\ existing_keys = SortSet(AllKeys(hist.backend0))
       /\ hist.typed = <<>>

C16_Witness ==
    /\ mode = "store"
    /\ pc = "s_menu"
    /\ hist.edits = 1
    /\ \E k \in DOMAIN data : is_key_sensitive(k) /\ data[k] # MASK
    /\ \E k \in DOMAIN data : ~is_key_sensitive(k)
    /\ Cardinality(Variants(data)) > 1
    /\ existing_keys # <<>>

\* C17: a store run that starts with no fuzzel-secrets collection creates it
\* at most once and never leaves two such collections, whatever the interleaving of the spawned key fetch with the foreground calls
C17_CollectionCreatedOnce ==
    (mode = "store" /\ hist.backend0 = <<>>) => Len(collections) <= 1

\* both processes persisted the same label, each having loaded the record
\* before the other persisted
Raced ==
    /\ mode = "store" /\ pc = "done" /\ other.pc = "done"
    /\ hist.existed /\ requested_secret = other.label
    /\ ~other.mainDoneAtLoad
    /\ other.mainLoadedAtPersist

\* C18: after such a race the record under the label is, as a whole, the working
\* Secret of the process that persisted last, and neither process has an error
C18_LastWriterWins ==
    Raced => /\ get_data(collections[1], other.label)
                  = [err |-> "", secret |-> IF other.mainDoneAtPersist THEN other.data ELSE data]
             /\ hist.err = "" /\ other.err = ""

C18_Witness ==
    /\ Raced
    /\ ~other.mainDoneAtPersist
    /\ other.edits = 1 /\ hist.edits = 1
    /\ USER \in DOMAIN other.data /\ USER \notin DOMAIN data
    /\ get_data(collections[1], other.label).secret = data

\* the items of the collection the run works on, when the run started
ItemsBefore == IF hist.backend0 = <<>> THEN <<>> ELSE hist.backend0[1]

\* the labels other than the chosen one, before or after the run
OtherLabels ==
    (Range(secrets(ItemsBefore)) \cup Range(secrets(collections[1]))) \ {requested_secret}

\* C19: after a successful store run, fetching the chosen label gives exactly the
\* working Secret, one item carries that label, and the items of every other
\* label are the ones the backend had before
C19_OnlyChosenLabelChanges ==
    (mode = "store" /\ pc = "done")
    => /\ get_data(collections[1], requested_secret) = [err |-> "", secret |-> data]
       /\ Len(items_with_label(collections[1], requested_secret)) = 1
       /\ \A l \in OtherLabels :
            items_with_label(collections[1], l) = items_with_label(ItemsBefore, l)

C19_Witness ==
    /\ mode = "store" /\ pc = "done"
    /\ hist.existed
    /\ hist.edits = 2
    /\ DOMAIN data = DOMAIN hist.loaded /\ data # hist.loaded
    /\ OtherLabels # {}

\* the keys of e that d lacks or maps to another value
Changed(d, e) == {k \in DOMAIN e : k \notin DOMAIN d \/ d[k] # e[k]}

\* one step of a store run from the edit-loop menu keeps every key and inserts
\* or overwrites at most one
LoopStepKeepsKeys ==
    (mode = "store" /\ pc = "s_menu")
    => /\ DOMAIN data \subseteq DOMAIN data'
       /\ Cardinality(DOMAIN data') <= Cardinality(DOMAIN data) + 1
       /\ Cardinality(Changed(data, data')) <= 1

\* what a store run persists has every key of the record it loaded
PersistedHasLoadedKeys ==
    (mode = "store" /\ pc \in {"s_menu", "s_persist", "done"})
    => /\ DOMAIN hist.loaded \subseteq DOMAIN data
       /\ \A i \in 1..Len(hist.persist) :
            DOMAIN hist.loaded \subseteq DOMAIN hist.persist[i][2]
       /\ pc = "done" =>
            DOMAIN hist.loaded \subseteq DOMAIN get_data(collections[1], requested_secret).secret

\* C20: in the edit loop the key set of the working Secret never shrinks, each
\* iteration changes at most one key and adds at most one field, and the
\* persisted Secret has every key of the loaded record
C20_KeysNeverShrink == [][LoopStepKeepsKeys]_vars /\ []PersistedHasLoadedKeys

C20_Witness ==
    /\ mode = "store" /\ pc = "done"
    /\ hist.existed
    /\ hist.edits = 2 /\ hist.adds = 1
    /\ Cardinality(DOMAIN hist.loaded) = 2
    /\ Cardinality(DOMAIN data) = 3
    /\ \E k \in DOMAIN hist.loaded : data[k] # hist.loaded[k]

====
